---- MODULE Spec2Model ----
(***************************************************************************)
(* Model of array-buffer-json: serialize(object) linearises a JSON-like    *)
(* value into one ArrayBuffer plus per-level property tables               *)
(* (BufferBackedObject), and a Proxy handler reads single fields back.     *)
(*                                                                         *)
(* Two source files are modelled: the variant with array support           *)
(* (src/unnamed/part_000) and the earlier one (src/src/serialize.ts) in     *)
(* which arrays are "not implemented" and the size comes from the external *)
(* object-sizeof package.                                                  *)
(***************************************************************************)
EXTENDS Integers, Sequences, FiniteSets, TLC

VARIABLES
    heap,      \* the input value graph: heap[1] is the object passed to serialize
    pc,        \* "build": the caller is still building the value; "done": serialize ran
    file,      \* which source file's serialize ran ("part_000" | "serialize.ts" | "none")
    buff,      \* the ArrayBuffer (sequence of bytes; position p is buff[p+1])
    bbos,      \* the BufferBackedObjects: bbos[r] is record r's properties table
    outcome,   \* "none" | "view" | "RangeError" | "NotImplemented"
    trace,     \* what process did: fields visited, nested calls returned
    lastRead   \* the last handler.get: target, key, result, bytes read

vars == <<heap, pc, file, buff, bbos, outcome, trace, lastRead>>

----------------------------------------------------------------------------
(* Bounds of the model *)

\* total number of members (leaves and nested objects/arrays) of the input
MaxNodes == 3

(* Program constants *)

Float64Bytes == 8
Uint8Bytes == 1
SizeOfBoolean == 4
SizeOfStringFactor == 4
SizeOfNumber == 8

----------------------------------------------------------------------------
(* Helpers on integers and sequences *)

Min(a, b) == IF a < b THEN a ELSE b
Max(a, b) == IF a > b THEN a ELSE b

RECURSIVE Pow2(_)
Pow2(n) == IF n = 0 THEN 1 ELSE 2 * Pow2(n - 1)

RECURSIVE Log2(_)
Log2(n) == IF n <= 1 THEN 0 ELSE 1 + Log2(n \div 2)

Zeros(n) == [i \in 1..n |-> 0]

----------------------------------------------------------------------------
(* Input values.  A value is [t, n, s]: t is what the code dispatches on,  *)
(* n the number / 0-1 boolean / referenced object id, s a string's UTF-16  *)
(* code units.                                                             *)

NumberV(x)  == [t |-> "number",    n |-> x, s |-> <<>>]
BooleanV(b) == [t |-> "boolean",   n |-> IF b THEN 1 ELSE 0, s |-> <<>>]
StringV(u)  == [t |-> "string",    n |-> 0, s |-> u]
NullV       == [t |-> "null",      n |-> 0, s |-> <<>>]
UndefinedV  == [t |-> "undefined", n |-> 0, s |-> <<>>]
RefV(j)     == [t |-> "ref",       n |-> j, s |-> <<>>]

\* "h" followed by U+2639 (3 bytes of UTF-8), and U+1F9B4 as a surrogate pair
Strings == { <<>>, <<104, 9785>>, <<55358, 56756>> }
Numbers == {3, 123}

Leaves ==
    {NumberV(x) : x \in Numbers} \cup {BooleanV(b) : b \in BOOLEAN}
        \cup {StringV(u) : u \in Strings} \cup {NullV, UndefinedV}

KeyNames   == <<"a", "b", "c", "d", "e", "f", "g", "h">>
IndexNames == <<"0", "1", "2", "3", "4", "5", "6", "7">>

\* Object.entries: the i-th own enumerable key of an object or of an array
KeyOf(obj, i) == IF obj.arr THEN IndexNames[i] ELSE KeyNames[i]

\* names every plain object inherits from Object.prototype
ObjectPrototypeNames == {"constructor"}

----------------------------------------------------------------------------
(* DataView.setFloat64 / getFloat64 (big-endian IEEE-754 binary64),        *)
(* restricted to the doubles the model uses: the integers 0 .. 2^20 - 1.   *)

Float64Encode(x) ==
    IF x = 0 THEN Zeros(8)
    ELSE LET e      == Log2(x)
             biased == 1023 + e
             m20    == (x - Pow2(e)) * Pow2(20 - e)
         IN  << biased \div 16,
                (biased % 16) * 16 + (m20 \div 65536),
                (m20 \div 256) % 256,
                m20 % 256,
                0, 0, 0, 0 >>

\* -1 stands for every double that is not one of the modelled integers
Float64Decode(b) ==
    IF b = Zeros(8) THEN 0
    ELSE LET biased == b[1] * 16 + (b[2] \div 16)
             e      == biased - 1023
             m20    == (b[2] % 16) * 65536 + b[3] * 256 + b[4]
         IN  IF /\ e >= 0
                /\ e <= 20
                /\ b[5] = 0 /\ b[6] = 0 /\ b[7] = 0 /\ b[8] = 0
                /\ m20 % Pow2(20 - e) = 0
             THEN Pow2(e) + (m20 \div Pow2(20 - e))
             ELSE -1

----------------------------------------------------------------------------
(* TextEncoder.encode: UTF-16 code units to UTF-8 bytes; a lone surrogate  *)
(* is encoded as U+FFFD.                                                   *)

IsHigh(u) == u >= 55296 /\ u <= 56319
IsLow(u)  == u >= 56320 /\ u <= 57343

Utf8OfCodePoint(cp) ==
    IF cp < 128 THEN <<cp>>
    ELSE IF cp < 2048 THEN <<192 + (cp \div 64), 128 + (cp % 64)>>
    ELSE IF cp < 65536 THEN
        <<224 + (cp \div 4096), 128 + ((cp \div 64) % 64), 128 + (cp % 64)>>
    ELSE <<240 + (cp \div 262144), 128 + ((cp \div 4096) % 64),
           128 + ((cp \div 64) % 64), 128 + (cp % 64)>>

RECURSIVE Utf8Encode(_)
Utf8Encode(s) ==
    IF s = <<>> THEN <<>>
    ELSE IF IsHigh(s[1]) /\ Len(s) >= 2 /\ IsLow(s[2]) THEN
        Utf8OfCodePoint(65536 + (s[1] - 55296) * 1024 + (s[2] - 56320))
            \o Utf8Encode(SubSeq(s, 3, Len(s)))
    ELSE IF IsHigh(s[1]) \/ IsLow(s[1]) THEN
        Utf8OfCodePoint(65533) \o Utf8Encode(Tail(s))
    ELSE Utf8OfCodePoint(s[1]) \o Utf8Encode(Tail(s))

(* TextDecoder.decode (not fatal, BOM stripped): UTF-8 bytes to UTF-16     *)
(* code units; a byte that starts no well-formed sequence becomes U+FFFD.  *)

IsCont(b, i) == i <= Len(b) /\ b[i] >= 128 /\ b[i] <= 191

UnitsOfCodePoint(cp) ==
    IF cp < 65536 THEN <<cp>>
    ELSE <<55296 + ((cp - 65536) \div 1024), 56320 + ((cp - 65536) % 1024)>>

RECURSIVE Utf8DecodeFrom(_, _)
Utf8DecodeFrom(b, i) ==
    IF i > Len(b) THEN <<>>
    ELSE IF b[i] < 128 THEN <<b[i]>> \o Utf8DecodeFrom(b, i + 1)
    ELSE IF b[i] >= 194 /\ b[i] <= 223 /\ IsCont(b, i + 1) THEN
        <<(b[i] - 192) * 64 + (b[i + 1] - 128)>> \o Utf8DecodeFrom(b, i + 2)
    ELSE IF b[i] >= 224 /\ b[i] <= 239 /\ IsCont(b, i + 1) /\ IsCont(b, i + 2)
            /\ (b[i] - 224) * 4096 + (b[i + 1] - 128) * 64 >= 2048
            /\ ~ (IsHigh((b[i] - 224) * 4096 + (b[i + 1] - 128) * 64)
                    \/ IsLow((b[i] - 224) * 4096 + (b[i + 1] - 128) * 64)) THEN
        <<(b[i] - 224) * 4096 + (b[i + 1] - 128) * 64 + (b[i + 2] - 128)>>
            \o Utf8DecodeFrom(b, i + 3)
    ELSE IF b[i] >= 240 /\ b[i] <= 244 /\ IsCont(b, i + 1) /\ IsCont(b, i + 2)
            /\ IsCont(b, i + 3)
            /\ (b[i] - 240) * 262144 + (b[i + 1] - 128) * 4096 >= 65536
            /\ (b[i] - 240) * 262144 + (b[i + 1] - 128) * 4096 < 1114112 THEN
        UnitsOfCodePoint((b[i] - 240) * 262144 + (b[i + 1] - 128) * 4096
                            + (b[i + 2] - 128) * 64 + (b[i + 3] - 128))
            \o Utf8DecodeFrom(b, i + 4)
    ELSE <<65533>> \o Utf8DecodeFrom(b, i + 1)

Utf8Decode(b) ==
    IF Len(b) >= 3 /\ b[1] = 239 /\ b[2] = 187 /\ b[3] = 191
    THEN Utf8DecodeFrom(b, 4)
    ELSE Utf8DecodeFrom(b, 1)

----------------------------------------------------------------------------
(* sizeOf: the deep-traversal size heuristic that sizes the buffer.        *)
(* stack holds values; objectList the identities already expanded (0 is    *)
(* null, which typeof also reports as 'object').                           *)

RECURSIVE PushMembers(_, _, _)
\* for (var key in value) stack.push(value[key])
PushMembers(stack, mem, i) ==
    IF i > Len(mem) THEN stack
    ELSE PushMembers(Append(stack, mem[i]), mem, i + 1)

InList(list, x) == \E i \in 1..Len(list) : list[i] = x

RECURSIVE SizeOfLoop(_, _, _, _)
SizeOfLoop(h, stack, objectList, bytes) ==
    IF stack = <<>> THEN bytes
    ELSE LET value == stack[Len(stack)]
             rest  == SubSeq(stack, 1, Len(stack) - 1)
         IN  IF value.t = "boolean" THEN
                 SizeOfLoop(h, rest, objectList, bytes + SizeOfBoolean)
             ELSE IF value.t = "string" THEN
                 SizeOfLoop(h, rest, objectList,
                            bytes + Len(value.s) * SizeOfStringFactor)
             ELSE IF value.t = "number" THEN
                 SizeOfLoop(h, rest, objectList, bytes + SizeOfNumber)
             ELSE IF value.t = "null" /\ ~ InList(objectList, 0) THEN
                 SizeOfLoop(h, rest, Append(objectList, 0), bytes)
             ELSE IF value.t = "ref" /\ ~ InList(objectList, value.n) THEN
                 SizeOfLoop(h, PushMembers(rest, h[value.n].mem, 1),
                            Append(objectList, value.n), bytes)
             ELSE SizeOfLoop(h, rest, objectList, bytes)

sizeOf(h, o) == SizeOfLoop(h, <<RefV(o)>>, <<>>, 0)

----------------------------------------------------------------------------
(* process: the recursive encoder.  The encoder state e holds the buffer,  *)
(* the property tables created so far, the pending exception, and a log of *)
(* the fields visited (position, width) and of the nested calls returned.  *)

Property(valueType, offset, byteSize, nestedBbo) ==
    [valueType |-> valueType, offset |-> offset,
     byteSize |-> byteSize, nestedBbo |-> nestedBbo]

\* absent optional fields of a Property (byteSize?, nestedBbo?)
NoByteSize == -1
NoBbo == 0

\* bbo.properties[key] = {...}
SetProperty(e, bbo, key, prop) ==
    [e EXCEPT !.bbos[bbo] = (key :> prop) @@ @]

\* DataView.setUint8 / setFloat64 of bytes that fit at byte position offset
WriteBytes(b, offset, bytes) ==
    [i \in 1..Len(b) |->
        IF i > offset /\ i <= offset + Len(bytes) THEN bytes[i - offset] ELSE b[i]]

Throw(e, name) == [e EXCEPT !.err = name]

Visit(e, pos, width) ==
    [e EXCEPT !.fields = Append(@, [pos |-> pos, width |-> width])]

RECURSIVE SumWidths(_, _)
SumWidths(fields, from) ==
    IF from > Len(fields) THEN 0
    ELSE fields[from].width + SumWidths(fields, from + 1)

\* case 'number'
ProcessNumber(e, bbo, key, value, offset) ==
    LET e1 == Visit(e, offset, Float64Bytes)
    IN  IF offset + Float64Bytes > Len(e.buff)
        THEN [e |-> Throw(e1, "RangeError"), offset |-> offset]
        ELSE [e |-> SetProperty(
                        [e1 EXCEPT !.buff = WriteBytes(@, offset, Float64Encode(value.n))],
                        bbo, key, Property("number", offset, Float64Bytes, NoBbo)),
              offset |-> offset + Float64Bytes]

\* case 'boolean'
ProcessBoolean(e, bbo, key, value, offset) ==
    LET e1 == Visit(e, offset, Uint8Bytes)
    IN  IF offset + Uint8Bytes > Len(e.buff)
        THEN [e |-> Throw(e1, "RangeError"), offset |-> offset]
        ELSE [e |-> SetProperty(
                        [e1 EXCEPT !.buff = WriteBytes(@, offset, <<value.n>>)],
                        bbo, key, Property("boolean", offset, Uint8Bytes, NoBbo)),
              offset |-> offset + Uint8Bytes]

\* case 'string': the property is recorded first, then the bytes are written
\* one at a time; the first byte that does not fit raises
ProcessString(e, bbo, key, value, offset) ==
    LET uint8Arr == Utf8Encode(value.s)
        e1  == SetProperty(Visit(e, offset, Len(uint8Arr)), bbo, key,
                           Property("string", offset, Len(uint8Arr), NoBbo))
        fit == Min(Len(uint8Arr), Max(0, Len(e.buff) - offset))
        e2  == [e1 EXCEPT !.buff = WriteBytes(@, offset, SubSeq(uint8Arr, 1, fit))]
    IN  IF fit < Len(uint8Arr)
        THEN [e |-> Throw(e2, "RangeError"), offset |-> offset + fit]
        ELSE [e |-> e2, offset |-> offset + Len(uint8Arr)]

\* case 'object', value === null
ProcessNull(e, bbo, key, offset) ==
    [e |-> SetProperty(Visit(e, offset, 0), bbo, key,
                       Property("null", offset, 0, NoBbo)),
     offset |-> offset]

\* a default case that breaks out of the switch instead of throwing
ProcessSkip(e, offset) ==
    [e |-> e, offset |-> offset]

\* default: throw new Error('not implemented')
ProcessDefault(e, offset) ==
    [e |-> Throw(e, "NotImplemented"), offset |-> offset]

\* the recursive call made without adding to the parent's offset
NestedNoAdvance(offset, ret) == offset

\* offset += process(...): ret is what the recursive call returned
NestedAdvance(offset, ret) == offset + ret

RECURSIVE ProcessFrom(_, _, _, _, _, _, _)

\* case 'object', an array (part_000 only) or a plain object: a new nested
\* record sharing the buffer, encoded by a recursive call from the same offset
ProcessNested(f, h, e, bbo, key, value, offset) ==
    LET nestedBbo == Len(e.bbos) + 1
        e1 == SetProperty([e EXCEPT !.bbos = Append(@, <<>>)], bbo, key,
                          Property(IF h[value.n].arr THEN "array" ELSE "object",
                                   offset, NoByteSize, nestedBbo))
        r  == ProcessFrom(f, h, value.n, 1, nestedBbo, offset, e1)
        after == NestedAdvance(offset, r.offset)
    IN  IF r.e.err # "none" THEN r
        ELSE [e |-> [r.e EXCEPT !.calls =
                        Append(@, [start |-> offset, ret |-> r.offset,
                                   n |-> SumWidths(r.e.fields, Len(e.fields) + 1),
                                   after |-> after])],
              offset |-> after]

\* the switch over typeof value for one [key, value] of Object.entries
ProcessEntry(f, h, e, bbo, key, value, offset) ==
    CASE value.t = "number"  -> ProcessNumber(e, bbo, key, value, offset)
      [] value.t = "boolean" -> ProcessBoolean(e, bbo, key, value, offset)
      [] value.t = "string"  -> ProcessString(e, bbo, key, value, offset)
      [] value.t = "null"    -> ProcessNull(e, bbo, key, offset)
      [] value.t = "ref"     ->
            IF h[value.n].arr /\ f = "serialize.ts"
            THEN ProcessDefault(e, offset)
            ELSE ProcessNested(f, h, e, bbo, key, value, offset)
      [] OTHER               -> ProcessDefault(e, offset)

\* the for loop over Object.entries(object), from the i-th entry on
ProcessFrom(f, h, o, i, bbo, offset, e) ==
    IF e.err # "none" \/ i > Len(h[o].mem) THEN [e |-> e, offset |-> offset]
    ELSE LET r == ProcessEntry(f, h, e, bbo, KeyOf(h[o], i), h[o].mem[i], offset)
         IN  ProcessFrom(f, h, o, i + 1, bbo, r.offset, r.e)

process(f, h, o, bbo, offset, e) == ProcessFrom(f, h, o, 1, bbo, offset, e)

\* serialize, after the buffer of the given size is allocated
SerializeWith(f, h, size) ==
    process(f, h, 1, 1, 0,
            [buff |-> Zeros(size), bbos |-> << <<>> >>, err |-> "none",
             fields |-> <<>>, calls |-> <<>>]).e

----------------------------------------------------------------------------
(* handler.get: the Proxy trap that decodes one field.                     *)

Result(kind, n, str) == [kind |-> kind, n |-> n, s |-> str]

\* the buffer positions [offset, offset + length)
Positions(offset, length) == offset .. (offset + length - 1)

\* the bytes at positions [offset, offset + length)
BytesAt(b, offset, length) == [i \in 1..length |-> b[offset + i]]

\* view.getFloat64(offset)
GetNumber(b, property) ==
    IF property.offset + Float64Bytes > Len(b)
    THEN [result |-> Result("RangeError", 0, <<>>), bytes |-> {}]
    ELSE [result |-> Result("number",
                            Float64Decode(BytesAt(b, property.offset, Float64Bytes)),
                            <<>>),
          bytes |-> Positions(property.offset, Float64Bytes)]

\* view.getUint8(offset) === 1
GetBoolean(b, property) ==
    IF property.offset + Uint8Bytes > Len(b)
    THEN [result |-> Result("RangeError", 0, <<>>), bytes |-> {}]
    ELSE [result |-> Result("boolean",
                            IF b[property.offset + 1] = 1 THEN 1 ELSE 0, <<>>),
          bytes |-> Positions(property.offset, Uint8Bytes)]

\* a string read that decodes a prefix of the buffer: Uint8Array(buff, 0, offset + byteSize)
GetStringFromStart(b, property) ==
    IF property.offset + property.byteSize > Len(b)
    THEN [result |-> Result("RangeError", 0, <<>>), bytes |-> {}]
    ELSE [result |-> Result("string", 0,
                            Utf8Decode(BytesAt(b, 0, property.offset + property.byteSize))),
          bytes |-> Positions(0, property.offset + property.byteSize)]

\* new TextDecoder().decode(new Uint8Array(buff, offset, byteSize))
GetString(b, property) ==
    IF property.offset + property.byteSize > Len(b)
    THEN [result |-> Result("RangeError", 0, <<>>), bytes |-> {}]
    ELSE [result |-> Result("string", 0,
                            Utf8Decode(BytesAt(b, property.offset, property.byteSize))),
          bytes |-> Positions(property.offset, property.byteSize)]

\* default: new Proxy(nestedBbo, handler); a non-object target is a TypeError
GetNested(nestedBbo) ==
    IF nestedBbo = NoBbo
    THEN [result |-> Result("TypeError", 0, <<>>), bytes |-> {}]
    ELSE [result |-> Result("proxy", nestedBbo, <<>>), bytes |-> {}]

\* handler.get(target, propertyName) on buffer b and properties table props
HandlerGet(b, props, propertyName) ==
    IF propertyName \in DOMAIN props THEN
        LET property == props[propertyName]
        IN  CASE property.valueType = "number"  -> GetNumber(b, property)
              [] property.valueType = "boolean" -> GetBoolean(b, property)
              [] property.valueType = "string"  -> GetString(b, property)
              [] property.valueType = "null"    ->
                    [result |-> Result("null", 0, <<>>), bytes |-> {}]
              [] OTHER                          -> GetNested(property.nestedBbo)
    ELSE IF propertyName \in ObjectPrototypeNames THEN
        \* properties is a plain object: the lookup finds the inherited
        \* member, which is truthy and has neither valueType nor nestedBbo
        GetNested(NoBbo)
    ELSE [result |-> Result("undefined", 0, <<>>), bytes |-> {}]

----------------------------------------------------------------------------
(* The state machine: the caller builds a value, serializes it once, and   *)
(* then reads fields through the views it holds.                           *)

EmptyObject(arr) == [arr |-> arr, mem |-> <<>>]

NoRead == [target |-> 0, key |-> "", result |-> Result("none", 0, <<>>), bytes |-> {}]
NoTrace == [size |-> 0, fields |-> <<>>, calls |-> <<>>]

RECURSIVE NodeCountFrom(_, _)
NodeCountFrom(h, o) ==
    IF o > Len(h) THEN 0 ELSE Len(h[o].mem) + NodeCountFrom(h, o + 1)

NodeCount(h) == NodeCountFrom(h, 1)

\* objects are filled in the order they were created
CanFill(h, o) == \A j \in (o + 1)..Len(h) : h[j].mem = <<>>

Init ==
    /\ heap = << EmptyObject(FALSE) >>
    /\ pc = "build"
    /\ file = "none"
    /\ buff = <<>>
    /\ bbos = <<>>
    /\ outcome = "none"
    /\ trace = NoTrace
    /\ lastRead = NoRead

Building(o) ==
    /\ pc = "build"
    /\ o \in 1..Len(heap)
    /\ NodeCount(heap) < MaxNodes
    /\ CanFill(heap, o)

\* the value gets one more leaf member
AddLeaf(o, v) ==
    /\ Building(o)
    /\ heap' = [heap EXCEPT ![o].mem = Append(@, v)]
    /\ UNCHANGED <<pc, file, buff, bbos, outcome, trace, lastRead>>

\* the value gets one more member that is a new, empty object or array
AddNested(o, arr) ==
    /\ Building(o)
    /\ heap' = Append([heap EXCEPT ![o].mem = Append(@, RefV(Len(heap) + 1))],
                      EmptyObject(arr))
    /\ UNCHANGED <<pc, file, buff, bbos, outcome, trace, lastRead>>

\* the value gets one more member that is an object or array it already holds
AddShared(o, j) ==
    /\ Building(o)
    /\ j \in (o + 1)..Len(heap)
    /\ heap' = [heap EXCEPT ![o].mem = Append(@, RefV(j))]
    /\ UNCHANGED <<pc, file, buff, bbos, outcome, trace, lastRead>>

Finish(f, size, e) ==
    /\ pc' = "done"
    /\ file' = f
    /\ buff' = e.buff
    /\ bbos' = e.bbos
    /\ outcome' = IF e.err = "none" THEN "view" ELSE e.err
    /\ trace' = [size |-> size, fields |-> e.fields, calls |-> e.calls]
    /\ UNCHANGED <<heap, lastRead>>

\* serialize of src/unnamed/part_000
Serialize ==
    /\ pc = "build"
    /\ LET size == sizeOf(heap, 1)
       IN  Finish("part_000", size, SerializeWith("part_000", heap, size))

\* what the external object-sizeof package may return for a value
SizeofOutcomes == {0, Float64Bytes, Float64Bytes * MaxNodes}

\* serialize of src/src/serialize.ts
SerializeTs ==
    /\ pc = "build"
    /\ \E size \in SizeofOutcomes :
            Finish("serialize.ts", size, SerializeWith("serialize.ts", heap, size))

\* the property names the caller asks a view of record target for: its own,
\* one no record has, and the ones inherited from Object.prototype
ReadKeys(target) ==
    DOMAIN bbos[target] \cup {"zz"} \cup ObjectPrototypeNames

\* a read that clears the bytes it has decoded
GetDestructive(target, propertyName) ==
    /\ pc = "done"
    /\ outcome = "view"
    /\ file = "part_000"
    /\ LET r == HandlerGet(buff, bbos[target], propertyName)
       IN  /\ lastRead' = [target |-> target, key |-> propertyName,
                           result |-> r.result, bytes |-> r.bytes]
           /\ buff' = [i \in 1..Len(buff) |-> IF (i - 1) \in r.bytes THEN 0 ELSE buff[i]]
    /\ UNCHANGED <<heap, pc, file, bbos, outcome, trace>>

\* the caller reads propertyName through a view of record target (the root
\* view serialize returned, or a Proxy an earlier read returned)
\* Only the handler of part_000 is modelled; serialize.ts is modelled up to
\* the return of serialize.
Get(target, propertyName) ==
    /\ pc = "done"
    /\ outcome = "view"
    /\ file = "part_000"
    /\ LET r == HandlerGet(buff, bbos[target], propertyName)
       IN  lastRead' = [target |-> target, key |-> propertyName,
                        result |-> r.result, bytes |-> r.bytes]
    /\ UNCHANGED <<heap, pc, file, buff, bbos, outcome, trace>>

Next ==
    \/ \E o \in 1..Len(heap), v \in Leaves : AddLeaf(o, v)
    \/ \E o \in 1..Len(heap), arr \in BOOLEAN : AddNested(o, arr)
    \/ \E o \in 1..Len(heap), j \in 1..Len(heap) : AddShared(o, j)
    \/ Serialize
    \/ SerializeTs
    \/ \E target \in 1..Len(bbos) : \E k \in ReadKeys(target) : Get(target, k)

Spec == Init /\ [][Next]_vars

----------------------------------------------------------------------------
(* Vocabulary of the properties *)

Records == 1..Len(bbos)

\* serialize returned a view to its caller
Returned == pc = "done" /\ outcome = "view"

IsNested(p) == p.nestedBbo # NoBbo

SetMax(S) == CHOOSE m \in S : \A x \in S : x <= m

\* the end of the last byte written for record r, whose encoding began at start
RECURSIVE RecordEnd(_, _)
RecordEnd(r, start) ==
    SetMax({start} \cup
           { IF IsNested(bbos[r][k])
             THEN RecordEnd(bbos[r][k].nestedBbo, bbos[r][k].offset)
             ELSE bbos[r][k].offset + bbos[r][k].byteSize : k \in DOMAIN bbos[r] })

\* the byte range of a field: [offset, offset + byteSize) for a leaf, the span
\* of the nested record for an object or array
FieldRange(p) ==
    IF IsNested(p) THEN Positions(p.offset, RecordEnd(p.nestedBbo, p.offset) - p.offset)
    ELSE Positions(p.offset, p.byteSize)

\* the members of the input value, as (object, index) pairs
Members == {om \in (1..Len(heap)) \X (1..MaxNodes) : om[2] <= Len(heap[om[1]].mem)}

MemberAt(om) == heap[om[1]].mem[om[2]]

\* a member process has no case for: undefined everywhere, an array in serialize.ts
Unsupported(v, f) ==
    \/ v.t = "undefined"
    \/ v.t = "ref" /\ heap[v.n].arr /\ f = "serialize.ts"

\* what reading a leaf back should give
Expected(v) ==
    CASE v.t = "number"  -> Result("number", v.n, <<>>)
      [] v.t = "boolean" -> Result("boolean", v.n, <<>>)
      [] v.t = "string"  -> Result("string", 0, v.s)
      [] v.t = "null"    -> Result("null", 0, <<>>)

\* following the members of input object o through a view of record r gives
\* every leaf back
RECURSIVE ReadsBack(_, _)
ReadsBack(o, r) ==
    \A i \in 1..Len(heap[o].mem) :
        LET v   == heap[o].mem[i]
            got == HandlerGet(buff, bbos[r], KeyOf(heap[o], i)).result
        IN  IF v.t = "ref"
            THEN got.kind = "proxy" /\ ReadsBack(v.n, got.n)
            ELSE got = Expected(v)

ARead == pc = "done" /\ lastRead.target # 0

----------------------------------------------------------------------------
(* C1: round trip.  For every value built from the supported tags,         *)
(* serialize returns a view and following each key path through the view   *)
(* gives every leaf back; nothing raises.                                  *)
C1_RoundTrip ==
    (pc = "done" /\ file = "part_000"
        /\ \A om \in Members : ~ Unsupported(MemberAt(om), file))
    => (outcome = "view" /\ ReadsBack(1, 1))

(* C2: no write past the end of the buffer.  Every write process performs  *)
(* at position p with width w satisfies p + w <= sizeOf(v), the length of  *)
(* the buffer serialize allocated.                                         *)
C2_WritesInsideBuffer ==
    (pc = "done" /\ file = "part_000")
    => \A i \in 1..Len(trace.fields) :
          trace.fields[i].width > 0
            => trace.fields[i].pos + trace.fields[i].width <= sizeOf(heap, 1)

(* C3: size bound.  sizeOf(v) is at least the sum, over every field        *)
(* process visits, of the bytes that field takes, also when a nested       *)
(* object is referenced from several fields.                               *)
C3_SizeBound ==
    (pc = "done" /\ file = "part_000")
    => sizeOf(heap, 1) >= SumWidths(trace.fields, 1)

(* C4: missing versus null.  Reading a name the record has no member for   *)
(* returns undefined and does not raise, for every such name; reading a    *)
(* member that was null returns null.                                      *)
C4_AbsentIsUndefined ==
    ARead =>
        /\ lastRead.key \notin DOMAIN bbos[lastRead.target]
              => lastRead.result.kind = "undefined"
        /\ (lastRead.key \in DOMAIN bbos[lastRead.target]
              /\ bbos[lastRead.target][lastRead.key].valueType = "null")
              => lastRead.result.kind = "null"

C6_ReadsOwnRangeOnly ==
    ARead =>
        LET props == bbos[lastRead.target]
        IN  IF lastRead.key \in DOMAIN props
            THEN /\ IsNested(props[lastRead.key]) => lastRead.bytes = {}
                 /\ ~ IsNested(props[lastRead.key]) =>
                        lastRead.bytes \subseteq
                            Positions(props[lastRead.key].offset,
                                      props[lastRead.key].byteSize)
                 /\ \A b \in DOMAIN props \ {lastRead.key} :
                        lastRead.bytes \cap FieldRange(props[b]) = {}
            ELSE lastRead.bytes = {}

\* a string was read whose record also holds an earlier sibling with bytes
C6_Witness ==
    /\ ARead
    /\ lastRead.result.kind = "string"
    /\ lastRead.bytes # {}
    /\ \E b \in DOMAIN bbos[lastRead.target] \ {lastRead.key} :
            /\ FieldRange(bbos[lastRead.target][b]) # {}
            /\ bbos[lastRead.target][b].offset
                    < bbos[lastRead.target][lastRead.key].offset

(* C7: offset disjointness.  In every record of a serialize call that      *)
(* returned, the byte ranges of two distinct sibling fields do not         *)
(* overlap.                                                                *)
C7_SiblingsDisjoint ==
    Returned =>
        \A r \in Records : \A a, b \in DOMAIN bbos[r] :
            a # b => FieldRange(bbos[r][a]) \cap FieldRange(bbos[r][b]) = {}

\* a returned record holds a nested field with bytes and a later sibling with bytes
C7_Witness ==
    /\ Returned
    /\ \E r \in Records : \E a, b \in DOMAIN bbos[r] :
            /\ a # b
            /\ IsNested(bbos[r][a])
            /\ FieldRange(bbos[r][a]) # {}
            /\ FieldRange(bbos[r][b]) # {}
            /\ bbos[r][a].offset < bbos[r][b].offset

(* C8: unsupported types abort the encode.  If any member anywhere in the  *)
(* value has a type process has no case for (undefined; in serialize.ts    *)
(* also any array), serialize raises and returns no view.                  *)
C8_UnsupportedAborts ==
    (pc = "done" /\ \E om \in Members : Unsupported(MemberAt(om), file))
    => outcome \in {"NotImplemented", "RangeError"}

\* serialize.ts met an array after it had already encoded a field
C8_Witness ==
    /\ pc = "done"
    /\ file = "serialize.ts"
    /\ outcome = "NotImplemented"
    /\ Len(trace.fields) > 0
    /\ \A om \in Members : MemberAt(om).t # "undefined"

(* C9: cursor advance over a nested member.  When a nested member is       *)
(* encoded from cursor o and the recursive call writes n bytes, the        *)
(* parent's cursor afterwards is exactly o + n.                            *)
C9_CursorAdvance ==
    \A i \in 1..Len(trace.calls) :
        trace.calls[i].after = trace.calls[i].start + trace.calls[i].n

(* C10: descriptor range inside the buffer.  In every record of a          *)
(* serialize call that returned, every field has offset >= 0 and           *)
(* offset + byteSize <= buffer length; an object or array field has        *)
(* offset <= buffer length.                                                *)
C10_DescriptorsInsideBuffer ==
    Returned =>
        \A r \in Records : \A k \in DOMAIN bbos[r] :
            /\ bbos[r][k].offset >= 0
            /\ IF IsNested(bbos[r][k])
               THEN bbos[r][k].offset <= Len(buff)
               ELSE bbos[r][k].offset + bbos[r][k].byteSize <= Len(buff)

====
